---------------------------- MODULE Spec2Model ----------------------------
(***************************************************************************)
(* Model of git-ignore: the capitalization normalizer and the direct       *)
(* remote fetch-and-merge of src/ignore.rs, and the catalog, its listing   *)
(* and its name resolution of src/data.rs as driven by src/main.rs.        *)
(*                                                                         *)
(* A Rust String is a sequence of one-character strings; a string literal  *)
(* of the source that no operation looks into is a single element.         *)
(***************************************************************************)
EXTENDS Integers, Sequences, FiniteSets, TLC

VARIABLES
    \* ---- capitalize_template_spec called on its own ----
    cap_spec,        \* the argument `spec`
    cap_result,      \* the returned String
    cap_done,        \* TRUE once the function has returned
    cap_given,       \* the argument of the first call
    cap_calls,       \* the number of calls made
    \* ---- the catalog and one cache-mode request of main ----
    data,                 \* IgnoreData.data
    opt_list,             \* Cli.list
    opt_templates,        \* Cli.templates, as given on the command line
    templates_for_cache,  \* main's templates_for_cache
    listed,               \* list's `result` after its sort
    output_str,           \* main's output_str
    err_stream,           \* lines written to the error stream
    cat_pc,               \* which branch of main produced output_str
    \* ---- fetch_and_append_github_templates ----
    gitignore,            \* .gitignore in the working directory
    remote,               \* what the remote answers for each fetched name
    template_specs,       \* the argument template_specs
    write_to_file_flag,   \* the argument write_to_file_flag
    f_pc,                 \* "start", "loop", "done" (Ok) or "error" (Err)
    idx,                  \* position of the fetch loop in template_specs
    existing_lines,
    session_lines_to_add,
    overall_new_lines_count_for_session,
    succeeded_templates_list,
    failed_templates_list,
    printed,              \* what the call wrote to standard output
    f_stderr,             \* what the call wrote to the error stream
    run,                  \* number of the current invocation
    before_run,           \* .gitignore when the current invocation began
    given,                \* .gitignore before the first invocation
    \* ---- main in cache mode: the store, the options, the output writer ----
    cache,                \* the template store under GIT_REPO_CACHE_DIR
    user_config,          \* the user configuration file: aliases and templates
    opt_update,           \* Cli.update
    opt_auto,             \* Cli.auto
    opt_write,            \* Cli.write
    opt_force,            \* Cli.force
    detected,             \* what autodetect_templates returns
    update_ran,           \* "no", or how Core::update went: "ok", "failed"
    main_stdout,          \* what main wrote to standard output
    main_pc,              \* position of main
    \* ---- get_templates, step by step ----
    g_pc,                 \* position in get_templates
    g_i,                  \* index of the requested name at hand
    g_val,                \* the targets of the alias at hand
    g_j,                  \* index of the target at hand
    g_result,             \* result
    g_blocks              \* per requested name, the number of push_str made for it

cap_vars == <<cap_spec, cap_result, cap_done, cap_given, cap_calls>>

cat_vars == <<data, opt_list, opt_templates, templates_for_cache, listed,
              output_str, err_stream, cat_pc>>

fetch_locals == <<f_pc, idx, existing_lines, session_lines_to_add,
                  overall_new_lines_count_for_session,
                  succeeded_templates_list, failed_templates_list,
                  printed, f_stderr>>

fetch_args == <<remote, template_specs, write_to_file_flag, given>>

fetch_vars == <<gitignore, fetch_args, fetch_locals, run, before_run>>

main_vars == <<cache, user_config, opt_update, opt_auto, opt_write, opt_force,
               detected, update_ran, main_stdout, main_pc>>

get_vars == <<g_pc, g_i, g_val, g_j, g_result, g_blocks>>

vars == <<cap_vars, cat_vars, fetch_vars, main_vars, get_vars>>

-----------------------------------------------------------------------------
(* Bounds *)

MaxSpecLen == 4

MaxTargets == 2

MaxNames == 2

MaxFileLen == 2

MaxSpecs == 3

MaxRuns == 2

-----------------------------------------------------------------------------
(* Characters and the std string operations the source calls *)

LowerSeq == <<"a","b","c","d","e","f","g","h","i","j","k","l","m",
              "n","o","p","q","r","s","t","u","v","w","x","y","z">>

UpperSeq == <<"A","B","C","D","E","F","G","H","I","J","K","L","M",
              "N","O","P","Q","R","S","T","U","V","W","X","Y","Z">>

DigitSeq == <<"0","1","2","3","4","5","6","7","8","9">>

IsAsciiLowercase(c) == \E i \in 1..Len(LowerSeq) : LowerSeq[i] = c

IsAsciiUppercase(c) == \E i \in 1..Len(UpperSeq) : UpperSeq[i] = c

IsAsciiDigit(c) == \E i \in 1..Len(DigitSeq) : DigitSeq[i] = c

IsAlphanumeric_LettersOnly(c) == IsAsciiLowercase(c) \/ IsAsciiUppercase(c)

IsAlphanumeric(c) == IsAsciiLowercase(c) \/ IsAsciiUppercase(c) \/ IsAsciiDigit(c)

ToAsciiUppercase(c) ==
    IF IsAsciiLowercase(c)
    THEN UpperSeq[CHOOSE i \in 1..Len(LowerSeq) : LowerSeq[i] = c]
    ELSE c

RECURSIVE SplitLoop(_, _, _, _, _)
SplitLoop(s, sep, i, cur, acc) ==
    IF i > Len(s) THEN Append(acc, cur)
    ELSE IF s[i] = sep THEN SplitLoop(s, sep, i + 1, <<>>, Append(acc, cur))
    ELSE SplitLoop(s, sep, i + 1, Append(cur, s[i]), acc)

Split(s, sep) == SplitLoop(s, sep, 1, <<>>, <<>>)

RECURSIVE Join(_, _)
Join(parts, sep) ==
    IF Len(parts) = 0 THEN <<>>
    ELSE IF Len(parts) = 1 THEN parts[1]
    ELSE parts[1] \o sep \o Join(Tail(parts), sep)

-----------------------------------------------------------------------------
(* capitalize_template_spec *)

RECURSIVE CapitalizeLoop(_, _, _, _)
CapitalizeLoop(part, i, capitalized_part, capitalize_next) ==
    IF i > Len(part) THEN capitalized_part
    ELSE
        LET c    == part[i]
            hit  == capitalize_next /\ IsAsciiLowercase(c)
            out  == Append(capitalized_part, IF hit THEN ToAsciiUppercase(c) ELSE c)
            cn1  == IF hit THEN FALSE ELSE capitalize_next
            cn2  == IF ~IsAlphanumeric(c) THEN TRUE
                    ELSE IF cn1 THEN FALSE ELSE cn1
        IN CapitalizeLoop(part, i + 1, out, cn2)

CapitalizePart_NoUppercaseCheck(part) == CapitalizeLoop(part, 1, <<>>, TRUE)

CapitalizePart(part) ==
    IF \E i \in 1..Len(part) : IsAsciiUppercase(part[i])
    THEN part
    ELSE CapitalizeLoop(part, 1, <<>>, TRUE)

\* A normalizer that leaves the empty segments out of what it joins.
capitalize_template_spec_SkipsEmpty(spec) ==
    LET split == SelectSeq(Split(spec, "/"), LAMBDA part : part # <<>>)
        parts == [i \in 1..Len(split) |-> CapitalizePart(split[i])]
    IN Join(parts, <<"/">>)

capitalize_template_spec(spec) ==
    LET split == Split(spec, "/")
        parts == [i \in 1..Len(split) |-> CapitalizePart(split[i])]
    IN Join(parts, <<"/">>)

-----------------------------------------------------------------------------
(* Specification of the normalizer on its own *)

CapChars == {"a", "b", "B", "1", "-", "_", "/"}

RECURSIVE StringsUpTo(_, _)
StringsUpTo(chars, n) ==
    IF n = 0 THEN {<<>>}
    ELSE LET shorter == StringsUpTo(chars, n - 1)
         IN shorter \cup {Append(s, c) : s \in {t \in shorter : Len(t) = n - 1}, c \in chars}

CapExamples ==
    { <<"v","i","s","u","a","l","-","s","t","u","d","i","o","-","c","o","d","e">>,
      <<"c","+","+">>,
      <<"g","l","o","b","a","l","/","l","i","n","u","x">>,
      <<"R","U","S","T">>,
      <<"v","i","s","u","a","l","s","t","u","d","i","o">>,
      <<"m","a","c","o","s">>,
      <<"C">>,
      <<"a","-","b","/","a","B">> }

CapIdle ==
    /\ cap_spec = <<>>
    /\ cap_result = <<>>
    /\ cap_done = FALSE
    /\ cap_given = <<>>
    /\ cap_calls = 0

CatIdle ==
    /\ data = <<>>
    /\ opt_list = FALSE
    /\ opt_templates = <<>>
    /\ templates_for_cache = <<>>
    /\ listed = <<>>
    /\ output_str = <<>>
    /\ err_stream = <<>>
    /\ cat_pc = "start"

NoFile == [exists |-> FALSE, content |-> <<>>]

File(content) == [exists |-> TRUE, content |-> content]

FetchIdle ==
    /\ gitignore = NoFile
    /\ remote = <<>>
    /\ template_specs = <<>>
    /\ write_to_file_flag = FALSE
    /\ f_pc = "start"
    /\ idx = 1
    /\ existing_lines = {}
    /\ session_lines_to_add = <<>>
    /\ overall_new_lines_count_for_session = 0
    /\ succeeded_templates_list = <<>>
    /\ failed_templates_list = <<>>
    /\ printed = <<>>
    /\ f_stderr = <<>>
    /\ run = 0
    /\ before_run = NoFile
    /\ given = NoFile

NoCache == [exists |-> FALSE, files |-> <<>>]

Cache(files) == [exists |-> TRUE, files |-> files]

NoUserData == [aliases |-> <<>>, templates |-> <<>>]

MainIdle ==
    /\ cache = NoCache
    /\ user_config = NoUserData
    /\ opt_update = FALSE
    /\ opt_auto = FALSE
    /\ opt_write = FALSE
    /\ opt_force = FALSE
    /\ detected = <<>>
    /\ update_ran = "no"
    /\ main_stdout = <<>>
    /\ main_pc = "start"

GetIdle ==
    /\ g_pc = "names"
    /\ g_i = 1
    /\ g_val = <<>>
    /\ g_j = 1
    /\ g_result = <<>>
    /\ g_blocks = <<>>

CapInit ==
    /\ cap_spec \in StringsUpTo(CapChars, MaxSpecLen) \cup CapExamples
    /\ cap_result = <<>>
    /\ cap_done = FALSE
    /\ cap_given = cap_spec
    /\ cap_calls = 0
    /\ CatIdle
    /\ FetchIdle
    /\ MainIdle
    /\ GetIdle

Capitalize ==
    /\ ~cap_done
    /\ cap_result' = capitalize_template_spec(cap_spec)
    /\ cap_done' = TRUE
    /\ cap_calls' = 1
    /\ UNCHANGED <<cap_spec, cap_given>>
    /\ UNCHANGED <<cat_vars, fetch_vars, main_vars, get_vars>>

\* The function is called once more, on what the first call returned.
CapitalizeAgain ==
    /\ cap_done
    /\ cap_calls = 1
    /\ cap_spec' = cap_result
    /\ cap_result' = capitalize_template_spec(cap_result)
    /\ cap_calls' = 2
    /\ UNCHANGED <<cap_done, cap_given>>
    /\ UNCHANGED <<cat_vars, fetch_vars, main_vars, get_vars>>

CapNext == Capitalize \/ CapitalizeAgain

SpecCap == CapInit /\ [][CapNext]_vars

-----------------------------------------------------------------------------
(* More std string operations *)

AsciiOrder == <<"\n", " ", "+", "-", "/">> \o DigitSeq \o UpperSeq \o <<"_">> \o LowerSeq

Code(c) == CHOOSE i \in 1..Len(AsciiOrder) : AsciiOrder[i] = c

RECURSIVE StrLess(_, _)
StrLess(a, b) ==
    IF Len(b) = 0 THEN FALSE
    ELSE IF Len(a) = 0 THEN TRUE
    ELSE IF Head(a) = Head(b) THEN StrLess(Tail(a), Tail(b))
    ELSE Code(Head(a)) < Code(Head(b))

Contains(s, pat) ==
    \E i \in 0..(Len(s) - Len(pat)) : SubSeq(s, i + 1, i + Len(pat)) = pat

RECURSIVE SortedSeqOf(_)
SortedSeqOf(S) ==
    IF S = {} THEN <<>>
    ELSE LET m == CHOOSE x \in S : \A y \in S \ {x} : StrLess(x, y)
         IN <<m>> \o SortedSeqOf(S \ {m})

RECURSIVE Concat(_)
Concat(ss) == IF Len(ss) = 0 THEN <<>> ELSE Head(ss) \o Concat(Tail(ss))

Range(s) == {s[i] : i \in 1..Len(s)}

SeqPerms(s) ==
    LET n == Len(s)
        perms == {f \in [1..n -> 1..n] : \A i, j \in 1..n : f[i] = f[j] => i = j}
    IN {[i \in 1..n |-> s[f[i]]] : f \in perms}

None == [some |-> FALSE, val |-> <<>>]

Some(v) == [some |-> TRUE, val |-> v]

-----------------------------------------------------------------------------
(* The catalog: Type, TypeName and IgnoreData *)

Template(key, content) ==
    [kind |-> "Template", key |-> key, content |-> content, aliases |-> <<>>]

Alias(key, aliases) ==
    [kind |-> "Alias", key |-> key, content |-> <<>>, aliases |-> aliases]

UserTemplate(key, content) ==
    [kind |-> "UserTemplate", key |-> key, content |-> content, aliases |-> <<>>]

\* impl Ord for Type: the comparison that data.sort_unstable() sorts by
Type_cmp(a, b) ==
    IF a.kind = "UserTemplate" /\ b.kind = "UserTemplate" THEN "Equal"
    ELSE IF a.kind = "UserTemplate" THEN "Greater"
    ELSE IF a.kind = "Alias" /\ b.kind = "UserTemplate" THEN "Greater"
    ELSE IF a.kind = "Alias" /\ b.kind = "Alias" THEN "Equal"
    ELSE IF a.kind = "Alias" /\ b.kind = "Template" THEN "Less"
    ELSE IF a.kind = "Template" /\ b.kind = "Template" THEN "Equal"
    ELSE "Less"

TypeName(entry) == [kind |-> entry.kind, name |-> entry.key]

\* Display for TypeName: the colour escapes are single elements.
Display(tn) ==
    IF tn.kind = "Template" THEN tn.name
    ELSE IF tn.kind = "Alias" THEN <<"<yellow,bold>">> \o tn.name \o <<"<reset>">>
    ELSE <<"<blue,bold>">> \o tn.name \o <<"<reset>">>

BoldYellow(s) == <<"<bold,yellow>">> \o s \o <<"<reset>">>

\* IgnoreData::new.  store maps the file stems found in the template store to
\* the files' text; user_data.aliases and user_data.templates are the two
\* mappings of the user configuration (templates already read from their
\* paths).  The sort_unstable that ends the function leaves an order that no
\* operation below observes (get_* look a key up within one variant, where
\* keys are unique, and list sorts again), so data is kept in one
\* representative order.
IgnoreData_new(store, user_data) ==
    LET vk == SortedSeqOf(DOMAIN store)
        ak == SortedSeqOf(DOMAIN user_data.aliases)
        uk == SortedSeqOf(DOMAIN user_data.templates)
    IN [i \in 1..Len(vk) |-> Template(vk[i], store[vk[i]])]
       \o [i \in 1..Len(ak) |-> Alias(ak[i], user_data.aliases[ak[i]])]
       \o [i \in 1..Len(uk) |-> UserTemplate(uk[i], user_data.templates[uk[i]])]

keys(d) == [i \in 1..Len(d) |-> TypeName(d[i])]

FindEntry(d, kind, name) ==
    LET hits == {i \in 1..Len(d) : d[i].kind = kind /\ d[i].key = name}
    IN IF hits = {} THEN 0 ELSE CHOOSE i \in hits : \A j \in hits : i <= j

get_template(d, name) ==
    LET i == FindEntry(d, "Template", name)
    IN IF i = 0 THEN None ELSE Some(d[i].content)

get_alias(d, name) ==
    LET i == FindEntry(d, "Alias", name)
    IN IF i = 0 THEN None ELSE Some(d[i].aliases)

get_user_template(d, name) ==
    LET i == FindEntry(d, "UserTemplate", name)
    IN IF i = 0 THEN None ELSE Some(d[i].content)

-----------------------------------------------------------------------------
(* list *)

\* The nested loop of list: one push per (entry, name) pair that matches.
RECURSIVE ListMatches(_, _)
ListMatches(templates, names) ==
    IF Len(templates) = 0 THEN <<>>
    ELSE LET entry == Head(templates)
             hits  == SelectSeq(names, LAMBDA name : Contains(entry.name, name))
         IN [i \in 1..Len(hits) |-> entry] \o ListMatches(Tail(templates), names)

\* result.sort_unstable() under Ord for TypeName, which compares the names
\* only: every arrangement in ascending name order is a possible outcome,
\* entries of equal name in any order.
RECURSIVE SortedByName(_, _)
SortedByName(result, names_left) ==
    IF Len(names_left) = 0 THEN {<<>>}
    ELSE LET group == SelectSeq(result, LAMBDA tn : tn.name = Head(names_left))
         IN {g \o rest : g \in SeqPerms(group),
                         rest \in SortedByName(result, Tail(names_left))}

sort_unstable(result) ==
    SortedByName(result, SortedSeqOf({result[i].name : i \in 1..Len(result)}))

\* The fold that ends list.
RECURSIVE ListFold(_)
ListFold(result) ==
    IF Len(result) = 0 THEN <<>>
    ELSE <<" ", " ">> \o Display(Head(result)) \o <<"\n">> \o ListFold(Tail(result))

list_result(d, names) ==
    IF Len(names) = 0 THEN keys(d) ELSE ListMatches(keys(d), names)

-----------------------------------------------------------------------------
(* get_templates *)

\* A lookup of a target that follows a further level of aliases.
ResolveTarget_Deep(d, name, alias, acc) ==
    LET found(t) == IF get_user_template(d, t).some THEN get_user_template(d, t).val
                    ELSE IF get_template(d, t).some THEN get_template(d, t).val
                    ELSE <<>>
    IN IF get_user_template(d, alias).some \/ get_template(d, alias).some
       THEN [acc EXCEPT !.result = @ \o found(alias)]
       ELSE IF get_alias(d, alias).some
       THEN LET val == get_alias(d, alias).val
            IN [acc EXCEPT !.result = @ \o Concat([i \in 1..Len(val) |-> found(val[i])])]
       ELSE [acc EXCEPT !.err = Append(@, BoldYellow(name) \o <<":", " ", "No such alias">>)]

\* One target of an alias (data.rs 340-346); acc is [result, err].
ResolveTarget(d, name, alias, acc) ==
    IF get_user_template(d, alias).some
    THEN [acc EXCEPT !.result = @ \o get_user_template(d, alias).val]
    ELSE IF get_template(d, alias).some
    THEN [acc EXCEPT !.result = @ \o get_template(d, alias).val]
    ELSE [acc EXCEPT !.err = Append(@, BoldYellow(name) \o <<":", " ", "No such alias">>)]

RECURSIVE ResolveTargets(_, _, _, _)
ResolveTargets(d, name, val, acc) ==
    IF Len(val) = 0 THEN acc
    ELSE ResolveTargets(d, name, Tail(val), ResolveTarget(d, name, Head(val), acc))

\* The lookups of one requested name with the alias tried first.
ResolveName_AliasFirst(d, name, acc) ==
    IF get_alias(d, name).some
    THEN ResolveTargets(d, name, get_alias(d, name).val, acc)
    ELSE IF get_user_template(d, name).some
    THEN [acc EXCEPT !.result = @ \o get_user_template(d, name).val]
    ELSE IF get_template(d, name).some
    THEN [acc EXCEPT !.result = @ \o get_template(d, name).val]
    ELSE acc

\* One requested name (data.rs 336-350).
ResolveName(d, name, acc) ==
    IF get_user_template(d, name).some
    THEN [acc EXCEPT !.result = @ \o get_user_template(d, name).val]
    ELSE IF get_alias(d, name).some
    THEN ResolveTargets(d, name, get_alias(d, name).val, acc)
    ELSE IF get_template(d, name).some
    THEN [acc EXCEPT !.result = @ \o get_template(d, name).val]
    ELSE acc

RECURSIVE ResolveNames(_, _, _)
ResolveNames(d, names, acc) ==
    IF Len(names) = 0 THEN acc
    ELSE ResolveNames(d, Tail(names), ResolveName(d, Head(names), acc))

Header(names) ==
    <<"\n\n### Sourced from github/gitignore for: ">>
        \o Join(names, <<",", " ">>) \o <<" ###\n">>

get_templates(d, names) ==
    LET acc == ResolveNames(d, names, [result |-> <<>>, err |-> <<>>])
    IN IF acc.result # <<>>
       THEN [acc EXCEPT !.result = Header(names) \o @]
       ELSE acc

-----------------------------------------------------------------------------
(* Specification of the catalog and of main's cache-mode requests *)

KeyA == <<"a">>

KeyAB == <<"a", "b">>

VendorKeys == {KeyA, KeyAB}

AliasKeys == {KeyA, KeyAB}

UserKeys == {KeyA}

Names == {KeyA, KeyAB}

VendorText(k) == <<"v">> \o k \o <<"\n">>

UserTexts(k) == {<<>>, <<"u">> \o k \o <<"\n">>}

RECURSIVE SeqsUpTo(_, _)
SeqsUpTo(S, n) ==
    IF n = 0 THEN {<<>>}
    ELSE LET shorter == SeqsUpTo(S, n - 1)
         IN shorter \cup {Append(s, x) : s \in {t \in shorter : Len(t) = n - 1}, x \in S}

PartialFunctions(D, R) == UNION {[X -> R] : X \in SUBSET D}

Stores == {[k \in X |-> VendorText(k)] : X \in SUBSET VendorKeys}

UserDatas ==
    {[aliases |-> al, templates |-> ut] :
        al \in PartialFunctions(AliasKeys, SeqsUpTo(Names, MaxTargets)),
        ut \in UNION {[X -> UNION {UserTexts(k) : k \in X}] : X \in SUBSET UserKeys}}

CatInit ==
    /\ \E store \in Stores, user_data \in UserDatas :
           data = IgnoreData_new(store, user_data)
    /\ opt_list = FALSE
    /\ opt_templates = <<>>
    /\ templates_for_cache = <<>>
    /\ listed = <<>>
    /\ output_str = <<>>
    /\ err_stream = <<>>
    /\ cat_pc = "start"
    /\ CapIdle
    /\ FetchIdle
    /\ MainIdle
    /\ GetIdle

\* main 123-136 without autodetection: the names pass through a HashSet, so
\* templates_for_cache holds each distinct name once, in any order.
HashSetOrders(templates) == SeqPerms(SortedSeqOf(Range(templates)))

\* main 147-154: --list
CacheList ==
    /\ cat_pc = "start"
    /\ \E templates \in SeqsUpTo(Names, MaxNames) :
       \E tfc \in HashSetOrders(templates) :
       \E result \in sort_unstable(list_result(data, tfc)) :
           /\ opt_list' = TRUE
           /\ opt_templates' = templates
           /\ templates_for_cache' = tfc
           /\ listed' = result
           /\ output_str' = ListFold(result)
           /\ err_stream' = <<>>
           /\ cat_pc' = "list"
           /\ UNCHANGED <<data, cap_vars, fetch_vars, main_vars, get_vars>>

\* main 155-162: no names and no --list renders the help text
CacheHelp ==
    /\ cat_pc = "start"
    /\ opt_list' = FALSE
    /\ opt_templates' = <<>>
    /\ templates_for_cache' = <<>>
    /\ listed' = <<>>
    /\ output_str' = <<"<help>">>
    /\ err_stream' = <<>>
    /\ cat_pc' = "help"
    /\ UNCHANGED <<data, cap_vars, fetch_vars, main_vars, get_vars>>

\* main 163-171: names resolved against the catalog (with names on the
\* command line this branch is reached under --update or --auto only; without
\* either flag main.rs 76 hands the names to the direct fetch)
CacheGet ==
    /\ cat_pc = "start"
    /\ \E templates \in SeqsUpTo(Names, MaxNames) \ {<<>>} :
       \E tfc \in HashSetOrders(templates) :
           LET got == get_templates(data, tfc)
           IN /\ opt_list' = FALSE
              /\ opt_templates' = templates
              /\ templates_for_cache' = tfc
              /\ listed' = <<>>
              /\ output_str' = got.result
              /\ err_stream' = got.err
              /\ cat_pc' = "get"
              /\ UNCHANGED <<data, cap_vars, fetch_vars, main_vars, get_vars>>

CatNext == CacheList \/ CacheHelp \/ CacheGet

SpecCatalog == CatInit /\ [][CatNext]_vars

-----------------------------------------------------------------------------
(* Specification of get_templates, one lookup at a time *)

GetInit ==
    /\ \E store \in Stores, user_data \in UserDatas :
           data = IgnoreData_new(store, user_data)
    /\ templates_for_cache \in SeqsUpTo(Names, MaxNames)
    /\ opt_list = FALSE
    /\ opt_templates = templates_for_cache
    /\ listed = <<>>
    /\ output_str = <<>>
    /\ err_stream = <<>>
    /\ cat_pc = "get"
    /\ g_pc = "names"
    /\ g_i = 1
    /\ g_val = <<>>
    /\ g_j = 1
    /\ g_result = <<>>
    /\ g_blocks = [n \in 1..Len(templates_for_cache) |-> 0]
    /\ CapIdle
    /\ FetchIdle
    /\ MainIdle

get_frame == <<data, opt_list, opt_templates, templates_for_cache, listed, cat_pc,
               cap_vars, fetch_vars, main_vars>>

AtName == g_pc = "names" /\ g_i <= Len(templates_for_cache)

g_name == templates_for_cache[g_i]

\* data.rs 336-337: the name is a user template
GetUserTemplate ==
    /\ AtName
    /\ get_user_template(data, g_name).some
    /\ g_result' = g_result \o get_user_template(data, g_name).val
    /\ g_blocks' = [g_blocks EXCEPT ![g_i] = @ + 1]
    /\ g_i' = g_i + 1
    /\ UNCHANGED <<g_pc, g_val, g_j, output_str, err_stream, get_frame>>

\* data.rs 338-339: the name is an alias, its targets are iterated
GetAlias ==
    /\ AtName
    /\ ~get_user_template(data, g_name).some
    /\ get_alias(data, g_name).some
    /\ g_val' = get_alias(data, g_name).val
    /\ g_j' = 1
    /\ g_pc' = "targets"
    /\ UNCHANGED <<g_i, g_result, g_blocks, output_str, err_stream, get_frame>>

\* data.rs 348-349: the name is a vendor template
GetTemplate ==
    /\ AtName
    /\ ~get_user_template(data, g_name).some
    /\ ~get_alias(data, g_name).some
    /\ get_template(data, g_name).some
    /\ g_result' = g_result \o get_template(data, g_name).val
    /\ g_blocks' = [g_blocks EXCEPT ![g_i] = @ + 1]
    /\ g_i' = g_i + 1
    /\ UNCHANGED <<g_pc, g_val, g_j, output_str, err_stream, get_frame>>

\* data.rs 336-350: the name matches nothing
GetNoMatch ==
    /\ AtName
    /\ ~get_user_template(data, g_name).some
    /\ ~get_alias(data, g_name).some
    /\ ~get_template(data, g_name).some
    /\ g_i' = g_i + 1
    /\ UNCHANGED <<g_pc, g_val, g_j, g_result, g_blocks, output_str, err_stream,
                   get_frame>>

AtTarget == g_pc = "targets" /\ g_j <= Len(g_val)

\* A step on a target that goes into the targets of a target that is an alias.
GetTarget_Follows ==
    /\ AtTarget
    /\ IF get_alias(data, g_val[g_j]).some
       THEN /\ g_val' = get_alias(data, g_val[g_j]).val
            /\ g_j' = 1
            /\ UNCHANGED <<g_result, g_blocks, err_stream>>
       ELSE LET acc == ResolveTarget(data, g_name, g_val[g_j],
                                     [result |-> g_result, err |-> err_stream])
            IN /\ g_result' = acc.result
               /\ err_stream' = acc.err
               /\ g_blocks' = [g_blocks EXCEPT ![g_i] =
                                   IF acc.err = err_stream THEN @ + 1 ELSE @]
               /\ g_j' = g_j + 1
               /\ g_val' = g_val
    /\ UNCHANGED <<g_pc, g_i, output_str, get_frame>>

\* data.rs 339-347: one target of the alias
GetTarget ==
    /\ AtTarget
    /\ LET acc == ResolveTarget(data, g_name, g_val[g_j],
                                [result |-> g_result, err |-> err_stream])
       IN /\ g_result' = acc.result
          /\ err_stream' = acc.err
          /\ g_blocks' = [g_blocks EXCEPT ![g_i] =
                              IF acc.err = err_stream THEN @ + 1 ELSE @]
    /\ g_j' = g_j + 1
    /\ UNCHANGED <<g_pc, g_i, g_val, output_str, get_frame>>

\* data.rs 347: the targets are exhausted, on to the next name
GetTargetsDone ==
    /\ g_pc = "targets"
    /\ g_j > Len(g_val)
    /\ g_pc' = "names"
    /\ g_i' = g_i + 1
    /\ UNCHANGED <<g_val, g_j, g_result, g_blocks, output_str, err_stream, get_frame>>

\* data.rs 353-364: the header and the return
GetReturn ==
    /\ g_pc = "names"
    /\ g_i > Len(templates_for_cache)
    /\ output_str' = IF g_result # <<>>
                     THEN Header(templates_for_cache) \o g_result
                     ELSE g_result
    /\ g_pc' = "done"
    /\ UNCHANGED <<g_i, g_val, g_j, g_result, g_blocks, err_stream, get_frame>>

GetNext ==
    \/ GetUserTemplate
    \/ GetAlias
    \/ GetTemplate
    \/ GetNoMatch
    \/ GetTarget
    \/ GetTargetsDone
    \/ GetReturn

\* get_templates is a sequential function: while a step is possible, one is
\* taken.
SpecGet == GetInit /\ [][GetNext]_vars /\ WF_vars(GetNext)


-----------------------------------------------------------------------------
(* fetch_and_append_github_templates: lines, trimming, the per-line step *)

IsWhitespace(c) == c \in {" ", "\t", "\n", "\r"}

RECURSIVE TrimEnd(_)
TrimEnd(s) ==
    IF Len(s) > 0 /\ IsWhitespace(s[Len(s)]) THEN TrimEnd(SubSeq(s, 1, Len(s) - 1)) ELSE s

RECURSIVE TrimStart(_)
TrimStart(s) ==
    IF Len(s) > 0 /\ IsWhitespace(s[1]) THEN TrimStart(Tail(s)) ELSE s

Trim(s) == TrimStart(TrimEnd(s))

\* str::lines: the pieces that end at each "\n", without that "\n" and without
\* a "\r" right before it; a last piece with no "\n" is a line as it stands.
RECURSIVE LinesLoop(_, _, _, _)
LinesLoop(s, i, cur, acc) ==
    IF i > Len(s) THEN (IF cur = <<>> THEN acc ELSE Append(acc, cur))
    ELSE IF s[i] = "\n"
    THEN LET line == IF Len(cur) > 0 /\ cur[Len(cur)] = "\r"
                     THEN SubSeq(cur, 1, Len(cur) - 1) ELSE cur
         IN LinesLoop(s, i + 1, <<>>, Append(acc, line))
    ELSE LinesLoop(s, i + 1, Append(cur, s[i]), acc)

Lines(s) == LinesLoop(s, 1, <<>>, <<>>)

\* ignore.rs 233-237
LoadExistingLines(content) ==
    {TrimEnd(Lines(content)[i]) : i \in 1..Len(Lines(content))}

\* The per-line step with the untrimmed line looked up in existing_lines.
CollectLine_RawLookup(acc, line_raw) ==
    LET line == TrimEnd(line_raw)
    IN IF line = <<>> THEN acc
       ELSE IF line_raw \in acc.existing
       THEN [acc EXCEPT !.existed = @ + 1]
       ELSE [acc EXCEPT !.session = Append(@, line),
                        !.existing = @ \cup {line},
                        !.added = @ + 1]

\* The per-line step that does not mark a collected line as existing.
CollectLine_NoMark(acc, line_raw) ==
    LET line == TrimEnd(line_raw)
    IN IF line = <<>> THEN acc
       ELSE IF line \in acc.existing
       THEN [acc EXCEPT !.existed = @ + 1]
       ELSE [acc EXCEPT !.session = Append(@, line),
                        !.added = @ + 1]

\* ignore.rs 303-333, one line of the body.  acc is [existing, session,
\* added, existed]: existing_lines, session_lines_to_add,
\* current_template_new_lines_added_to_session, current_template_existed_lines.
CollectLine(acc, line_raw) ==
    LET line == TrimEnd(line_raw)
    IN IF line = <<>> THEN acc
       ELSE IF line \in acc.existing
       THEN [acc EXCEPT !.existed = @ + 1]
       ELSE [acc EXCEPT !.session = Append(@, line),
                        !.existing = @ \cup {line},
                        !.added = @ + 1]

RECURSIVE CollectLines(_, _)
CollectLines(acc, lines) ==
    IF Len(lines) = 0 THEN acc
    ELSE CollectLines(CollectLine(acc, Head(lines)), Tail(lines))

\* A push that leaves the separating space out.
PushName_NoSeparator(list, name) == list \o name

\* format!("{} ", template_spec_original) pushed onto a list
PushName(list, name) == list \o name \o <<" ">>

\* writeln!(file, "{}", line) for every line of the batch
RECURSIVE WriteLines(_)
WriteLines(lines) ==
    IF Len(lines) = 0 THEN <<>>
    ELSE Head(lines) \o <<"\n">> \o WriteLines(Tail(lines))

Msg(kind, n, text) == [msg |-> kind, n |-> n, text |-> text]

\* An append that never adds a newline before the batch.
NewlineBefore_Never(current_content) == <<>>

\* ignore.rs 393-404: a newline is written first when the file is not empty
\* and does not end with one
NewlineBefore(current_content) ==
    IF current_content # <<>> /\ current_content[Len(current_content)] # "\n"
    THEN <<"\n">>
    ELSE <<>>

-----------------------------------------------------------------------------
(* Specification of fetch_and_append_github_templates *)

\* The call is made with verbose = debug = false: the two flags add
\* diagnostics only (one of them, at ignore.rs 354, on standard output) and
\* decide nothing else.  main calls the function with a non-empty
\* template_specs only (main.rs 76), so the early return at 213-218 is not
\* reached.  Errors of the file system on .gitignore are left out.

SpecC == <<"c">>

SpecD == <<"d">>

FetchSpecs == {SpecC, SpecD}

Urls == {capitalize_template_spec(s) : s \in FetchSpecs}

FileChars == {"a", " ", "\n"}

Bodies ==
    { <<>>,
      <<"a", "\n">>,
      <<"a", " ", "\n", "b", "\n">>,
      <<"b", "\r", "\n", "\n", " ", "a">> }

\* What one request can come to: a success status with a body that is read,
\* a success status whose body cannot be read, a non-success status, or an
\* error of send().
Outcomes ==
    {[kind |-> "ok", body |-> b] : b \in Bodies}
        \cup {[kind |-> k, body |-> <<>>] : k \in {"body_error", "status", "transport"}}

FetchInit ==
    /\ gitignore \in {NoFile} \cup {File(c) : c \in StringsUpTo(FileChars, MaxFileLen)}
    /\ given = gitignore
    /\ before_run = gitignore
    /\ template_specs \in SeqsUpTo(FetchSpecs, MaxSpecs) \ {<<>>}
    /\ remote \in [Urls -> Outcomes]
    /\ \A u \in Urls \ {capitalize_template_spec(s) : s \in Range(template_specs)} :
           remote[u].kind = "status"
    /\ write_to_file_flag \in BOOLEAN
    /\ f_pc = "start"
    /\ idx = 1
    /\ existing_lines = {}
    /\ session_lines_to_add = <<>>
    /\ overall_new_lines_count_for_session = 0
    /\ succeeded_templates_list = <<>>
    /\ failed_templates_list = <<>>
    /\ printed = <<>>
    /\ f_stderr = <<>>
    /\ run = 1
    /\ CapIdle
    /\ CatIdle
    /\ MainIdle
    /\ GetIdle

\* A start that creates and loads .gitignore whatever the write flag is.
FetchStart_AlwaysLoads ==
    /\ f_pc = "start"
    /\ f_pc' = "loop"
    /\ gitignore' = IF gitignore.exists THEN gitignore ELSE File(<<>>)
    /\ existing_lines' = LoadExistingLines(gitignore.content)
    /\ UNCHANGED <<idx, session_lines_to_add, overall_new_lines_count_for_session,
                   succeeded_templates_list, failed_templates_list, printed,
                   f_stderr, fetch_args, run, before_run, cap_vars, cat_vars, main_vars, get_vars>>

\* ignore.rs 220-259: the file is created if absent and its lines are loaded
FetchStart ==
    /\ f_pc = "start"
    /\ f_pc' = "loop"
    /\ IF write_to_file_flag
       THEN /\ gitignore' = IF gitignore.exists THEN gitignore ELSE File(<<>>)
            /\ existing_lines' = LoadExistingLines(gitignore.content)
       ELSE /\ gitignore' = gitignore
            /\ existing_lines' = {}
    /\ UNCHANGED <<idx, session_lines_to_add, overall_new_lines_count_for_session,
                   succeeded_templates_list, failed_templates_list, printed,
                   f_stderr, fetch_args, run, before_run, cap_vars, cat_vars, main_vars, get_vars>>

Fetching == f_pc = "loop" /\ idx <= Len(template_specs)

template_spec_original == template_specs[idx]

Response == remote[capitalize_template_spec(template_spec_original)]

\* ignore.rs 286-362: success status and the body is read
FetchOk ==
    /\ Fetching
    /\ Response.kind = "ok"
    /\ LET acc == CollectLines([existing |-> existing_lines,
                                session |-> session_lines_to_add,
                                added |-> 0, existed |-> 0],
                               Lines(Response.body))
           collected == IF write_to_file_flag /\ acc.added > 0
                        THEN <<Msg("collected", acc.added, template_spec_original)>>
                        ELSE <<>>
           all_existed == IF acc.added = 0 /\ acc.existed > 0 /\ write_to_file_flag
                          THEN <<Msg("all_existed", 0, template_spec_original)>>
                          ELSE <<>>
       IN /\ succeeded_templates_list' =
                 PushName(succeeded_templates_list, template_spec_original)
          /\ existing_lines' = acc.existing
          /\ session_lines_to_add' = acc.session
          /\ overall_new_lines_count_for_session' =
                 overall_new_lines_count_for_session + acc.added
          /\ printed' = printed \o collected \o all_existed
    /\ idx' = idx + 1
    /\ UNCHANGED <<f_pc, failed_templates_list, f_stderr, gitignore, fetch_args,
                   run, before_run, cap_vars, cat_vars, main_vars, get_vars>>

\* ignore.rs 288: res.text()? returns the error of reading the body
FetchBodyError ==
    /\ Fetching
    /\ Response.kind = "body_error"
    /\ f_pc' = "error"
    /\ UNCHANGED <<idx, existing_lines, session_lines_to_add,
                   overall_new_lines_count_for_session, succeeded_templates_list,
                   failed_templates_list, printed, f_stderr, gitignore, fetch_args,
                   run, before_run, cap_vars, cat_vars, main_vars, get_vars>>

\* A non-success status that ends the loop instead of going on.
FetchStatusFailure_Stops ==
    /\ Fetching
    /\ Response.kind = "status"
    /\ f_stderr' = Append(f_stderr, Msg("http_status", 0, template_spec_original))
    /\ failed_templates_list' = PushName(failed_templates_list, template_spec_original)
    /\ idx' = Len(template_specs) + 1
    /\ UNCHANGED <<f_pc, existing_lines, session_lines_to_add,
                   overall_new_lines_count_for_session, succeeded_templates_list,
                   printed, gitignore, fetch_args, run, before_run, cap_vars, cat_vars, main_vars, get_vars>>

\* ignore.rs 363-372: non-success status
FetchStatusFailure ==
    /\ Fetching
    /\ Response.kind = "status"
    /\ f_stderr' = Append(f_stderr, Msg("http_status", 0, template_spec_original))
    /\ failed_templates_list' = PushName(failed_templates_list, template_spec_original)
    /\ idx' = idx + 1
    /\ UNCHANGED <<f_pc, existing_lines, session_lines_to_add,
                   overall_new_lines_count_for_session, succeeded_templates_list,
                   printed, gitignore, fetch_args, run, before_run, cap_vars, cat_vars, main_vars, get_vars>>

\* ignore.rs 374-383: send() failed
FetchTransportFailure ==
    /\ Fetching
    /\ Response.kind = "transport"
    /\ f_stderr' = Append(f_stderr, Msg("transport", 0, template_spec_original))
    /\ failed_templates_list' = PushName(failed_templates_list, template_spec_original)
    /\ idx' = idx + 1
    /\ UNCHANGED <<f_pc, existing_lines, session_lines_to_add,
                   overall_new_lines_count_for_session, succeeded_templates_list,
                   printed, gitignore, fetch_args, run, before_run, cap_vars, cat_vars, main_vars, get_vars>>

\* ignore.rs 387-452: the batch is appended or printed, then the summaries
FetchFinish ==
    /\ f_pc = "loop"
    /\ idx > Len(template_specs)
    /\ f_pc' = "done"
    /\ LET some_succeeded == Trim(succeeded_templates_list) # <<>>
           newline == NewlineBefore(gitignore.content)
           batch_out ==
               IF write_to_file_flag
               THEN IF session_lines_to_add # <<>>
                    THEN <<Msg("total", overall_new_lines_count_for_session, <<>>)>>
                    ELSE IF some_succeeded THEN <<Msg("no_new_lines", 0, <<>>)>>
                    ELSE <<>>
               ELSE [i \in 1..Len(session_lines_to_add) |->
                         Msg("line", 0, session_lines_to_add[i])]
           success == IF some_succeeded
                      THEN <<Msg("succeeded", 0, Trim(succeeded_templates_list))>>
                      ELSE <<>>
           failure == IF Trim(failed_templates_list) # <<>>
                      THEN <<Msg("failed", 0, Trim(failed_templates_list))>>
                      ELSE <<>>
       IN /\ gitignore' =
                 IF write_to_file_flag /\ session_lines_to_add # <<>>
                 THEN File(gitignore.content \o newline \o WriteLines(session_lines_to_add))
                 ELSE gitignore
          /\ printed' = printed \o batch_out \o success
          /\ f_stderr' = f_stderr \o failure
    /\ UNCHANGED <<idx, existing_lines, session_lines_to_add,
                   overall_new_lines_count_for_session, succeeded_templates_list,
                   failed_templates_list, fetch_args, run, before_run,
                   cap_vars, cat_vars, main_vars, get_vars>>

\* The command is run once more with the same arguments and the same remote.
RunAgain ==
    /\ f_pc \in {"done", "error"}
    /\ run < MaxRuns
    /\ run' = run + 1
    /\ before_run' = gitignore
    /\ f_pc' = "start"
    /\ idx' = 1
    /\ existing_lines' = {}
    /\ session_lines_to_add' = <<>>
    /\ overall_new_lines_count_for_session' = 0
    /\ succeeded_templates_list' = <<>>
    /\ failed_templates_list' = <<>>
    /\ printed' = <<>>
    /\ f_stderr' = <<>>
    /\ UNCHANGED <<gitignore, fetch_args, cap_vars, cat_vars, main_vars, get_vars>>

FetchNext ==
    \/ FetchStart
    \/ FetchOk
    \/ FetchBodyError
    \/ FetchStatusFailure
    \/ FetchTransportFailure
    \/ FetchFinish
    \/ RunAgain

SpecFetch == FetchInit /\ [][FetchNext]_vars

-----------------------------------------------------------------------------
(* Specification of main without a subcommand *)

\* verbose and debug are off.  Of the direct fetch main only makes the call
\* (the function is specified above on its own).  Errors of the file system
\* and of reading the user configuration are left out.

\* The repository that git clone and git pull deliver.
Upstream == [k \in VendorKeys |-> VendorText(k)]

\* Core::update with the way git went: on success the store is the cloned or
\* pulled repository, on a non-zero exit status it is as before.
update(c, git) == IF git = "ok" THEN Cache(Upstream) ELSE c

MainCaches == {NoCache, Cache([k \in {KeyA} |-> VendorText(k)]), Cache(Upstream)}

MainUserDatas ==
    { NoUserData,
      [aliases |-> [k \in {KeyA} |-> <<KeyA, KeyAB>>], templates |-> <<>>],
      [aliases |-> [k \in {KeyAB} |-> <<KeyA>>],
       templates |-> [k \in {KeyA} |-> <<"u", "a", "\n">>]] }

\* What autodetect_templates can return for the current directory.
Detections == {<<>>, <<KeyA>>}

MainGitignores == {NoFile, File(<<"x">>), File(<<"x", "\n">>)}

MainInit ==
    /\ cache \in MainCaches
    /\ user_config \in MainUserDatas
    /\ opt_list \in BOOLEAN
    /\ opt_update \in BOOLEAN
    /\ opt_auto \in BOOLEAN
    /\ opt_write \in BOOLEAN
    /\ opt_force \in BOOLEAN
    /\ opt_force => opt_write
    /\ opt_templates \in SeqsUpTo(Names, MaxNames)
    /\ detected \in (IF opt_auto THEN Detections ELSE {<<>>})
    /\ gitignore \in MainGitignores
    /\ given = gitignore
    /\ before_run = gitignore
    /\ run = 1
    /\ data = <<>>
    /\ templates_for_cache = <<>>
    /\ listed = <<>>
    /\ output_str = <<>>
    /\ err_stream = <<>>
    /\ cat_pc = "start"
    /\ update_ran = "no"
    /\ main_stdout = <<>>
    /\ main_pc = "start"
    /\ remote = <<>>
    /\ template_specs = <<>>
    /\ write_to_file_flag = FALSE
    /\ f_pc = "start"
    /\ idx = 1
    /\ existing_lines = {}
    /\ session_lines_to_add = <<>>
    /\ overall_new_lines_count_for_session = 0
    /\ succeeded_templates_list = <<>>
    /\ failed_templates_list = <<>>
    /\ printed = <<>>
    /\ f_stderr = <<>>
    /\ CapIdle
    /\ GetIdle

main_opts == <<user_config, opt_list, opt_templates, opt_update, opt_auto,
               opt_write, opt_force, detected>>

main_frame == <<main_opts, remote, given, fetch_locals, run, before_run,
                cap_vars, get_vars>>

\* main.rs 76
DirectRoute == opt_templates # <<>> /\ ~opt_list /\ ~opt_update /\ ~opt_auto

\* main.rs 76-86: bare names go to the direct fetch
MainDirectFetch ==
    /\ main_pc = "start"
    /\ DirectRoute
    /\ template_specs' = opt_templates
    /\ write_to_file_flag' = opt_write
    /\ main_pc' = "direct"
    /\ UNCHANGED <<data, templates_for_cache, listed, output_str, err_stream, cat_pc,
                   gitignore, cache, update_ran, main_stdout, main_frame>>

\* main.rs 93-95: the catalog is built from the store as it is now
MainBuild ==
    /\ main_pc = "start"
    /\ ~DirectRoute
    /\ data' = IgnoreData_new(cache.files, user_config)
    /\ main_pc' = "built"
    /\ UNCHANGED <<templates_for_cache, listed, output_str, err_stream, cat_pc,
                   gitignore, template_specs, write_to_file_flag, cache, update_ran,
                   main_stdout, main_frame>>

\* main.rs 97-107: --update
MainUpdateFlag ==
    /\ main_pc = "built"
    /\ opt_update
    /\ \E git \in {"ok", "failed"} :
           /\ cache' = update(cache, git)
           /\ update_ran' = git
           /\ err_stream' = Append(err_stream, <<"<git: ", git, ">">>)
    /\ main_pc' = IF opt_templates = <<>> /\ ~opt_auto /\ ~opt_list
                  THEN "done" ELSE "updated"
    /\ UNCHANGED <<data, templates_for_cache, listed, output_str, cat_pc, gitignore,
                   template_specs, write_to_file_flag, main_stdout, main_frame>>

\* main.rs 108-114: the store is there and no update was asked for
MainCacheHit ==
    /\ main_pc = "built"
    /\ ~opt_update
    /\ cache.exists
    /\ err_stream' = IF ~opt_list /\ opt_templates # <<>>
                     THEN Append(err_stream, <<"<Info: using cached results>">>)
                     ELSE err_stream
    /\ main_pc' = "updated"
    /\ UNCHANGED <<data, templates_for_cache, listed, output_str, cat_pc, gitignore,
                   template_specs, write_to_file_flag, cache, update_ran,
                   main_stdout, main_frame>>

\* main.rs 115-121: no store, so an update is attempted
MainAutoUpdate ==
    /\ main_pc = "built"
    /\ ~opt_update
    /\ ~cache.exists
    /\ ~opt_list
    /\ \E git \in {"ok", "failed"} :
           /\ cache' = update(cache, git)
           /\ update_ran' = git
           /\ err_stream' = err_stream \o << <<"<Warning: cache not found>">>,
                                             <<"<git: ", git, ">">> >>
    /\ main_pc' = "updated"
    /\ UNCHANGED <<data, templates_for_cache, listed, output_str, cat_pc, gitignore,
                   template_specs, write_to_file_flag, main_stdout, main_frame>>

\* main.rs 108-121: --list without a store goes on with no update
MainListNoCache ==
    /\ main_pc = "built"
    /\ ~opt_update
    /\ ~cache.exists
    /\ opt_list
    /\ main_pc' = "updated"
    /\ UNCHANGED <<data, templates_for_cache, listed, output_str, err_stream, cat_pc,
                   gitignore, template_specs, write_to_file_flag, cache, update_ran,
                   main_stdout, main_frame>>

\* main.rs 101, 120 with ignore.rs 77-82, 110-115: git could not be started,
\* update returns the error and main ends with it
MainUpdateError ==
    /\ main_pc = "built"
    /\ opt_update \/ (~cache.exists /\ ~opt_list)
    /\ main_pc' = "error"
    /\ UNCHANGED <<data, templates_for_cache, listed, output_str, err_stream, cat_pc,
                   gitignore, template_specs, write_to_file_flag, cache, update_ran,
                   main_stdout, main_frame>>

\* main.rs 123-134: the names of the command line and the detected ones
all_templates_for_cache ==
    Range(opt_templates) \cup (IF opt_auto THEN Range(detected) ELSE {})

\* main.rs 136: the set is iterated in an order of its own
MainOrders == SeqPerms(SortedSeqOf(all_templates_for_cache))

NoTemplatesFound(tfc) ==
    <<"<Warning>", ": No templates found in gitignore.io cache for: ">>
        \o Join(tfc, <<",", " ">>)

\* main.rs 138-145: an update with nothing more to do
MainUpdateOnly ==
    /\ main_pc = "updated"
    /\ opt_update
    /\ all_templates_for_cache = {}
    /\ ~opt_list
    /\ main_pc' = "done"
    /\ UNCHANGED <<data, templates_for_cache, listed, output_str, err_stream, cat_pc,
                   gitignore, template_specs, write_to_file_flag, cache, update_ran,
                   main_stdout, main_frame>>

\* main.rs 147-154 and 173-185: --list
MainList ==
    /\ main_pc = "updated"
    /\ opt_list
    /\ \E tfc \in MainOrders :
       \E result \in sort_unstable(list_result(data, tfc)) :
           /\ templates_for_cache' = tfc
           /\ listed' = result
           /\ output_str' = ListFold(result)
           /\ IF result = <<>> /\ tfc # <<>>
              THEN /\ err_stream' = Append(err_stream, NoTemplatesFound(tfc))
                   /\ main_pc' = "done"
              ELSE /\ err_stream' = err_stream
                   /\ main_pc' = "resolved"
    /\ cat_pc' = "list"
    /\ UNCHANGED <<data, gitignore, template_specs, write_to_file_flag, cache,
                   update_ran, main_stdout, main_frame>>

\* main.rs 155-162: no names and no --list renders the help text
MainHelp ==
    /\ main_pc = "updated"
    /\ ~opt_list
    /\ ~opt_update
    /\ all_templates_for_cache = {}
    /\ output_str' = <<"<help>">>
    /\ cat_pc' = "help"
    /\ main_pc' = "resolved"
    /\ UNCHANGED <<data, templates_for_cache, listed, err_stream, gitignore,
                   template_specs, write_to_file_flag, cache, update_ran,
                   main_stdout, main_frame>>

\* main.rs 163-171 and 173-185: the names are resolved against the catalog
MainGet ==
    /\ main_pc = "updated"
    /\ ~opt_list
    /\ all_templates_for_cache # {}
    /\ \E tfc \in MainOrders :
           LET got == get_templates(data, tfc)
           IN /\ templates_for_cache' = tfc
              /\ output_str' = got.result
              /\ IF got.result = <<>>
                 THEN /\ err_stream' = Append(err_stream \o got.err, NoTemplatesFound(tfc))
                      /\ main_pc' = "done"
                 ELSE /\ err_stream' = err_stream \o got.err
                      /\ main_pc' = "resolved"
    /\ cat_pc' = "get"
    /\ UNCHANGED <<data, listed, gitignore, template_specs, write_to_file_flag, cache,
                   update_ran, main_stdout, main_frame>>

\* str::ends_with('\n') on a text whose literals are single elements: the
\* header and the help text end with a newline.
EndsWithNewline(content) ==
    content # <<>> /\ content[Len(content)] \in {"\n", " ###\n", "<help>"}

\* main.rs 192-204: .gitignore is not there and is created with the output
MainCreate ==
    /\ main_pc = "resolved"
    /\ opt_write
    /\ ~gitignore.exists
    /\ gitignore' = File(output_str)
    /\ main_stdout' = Append(main_stdout,
                             Msg("created", 0, Join(templates_for_cache, <<",", " ">>)))
    /\ main_pc' = "done"
    /\ UNCHANGED <<data, templates_for_cache, listed, output_str, err_stream, cat_pc,
                   template_specs, write_to_file_flag, cache, update_ran, main_frame>>

\* main.rs 205-221: .gitignore is there and --force is given
MainAppend ==
    /\ main_pc = "resolved"
    /\ opt_write
    /\ gitignore.exists
    /\ opt_force
    /\ LET current_content == gitignore.content
           newline == IF current_content # <<>> /\ ~EndsWithNewline(current_content)
                      THEN <<"\n">> ELSE <<>>
       IN gitignore' = File(current_content \o newline \o output_str)
    /\ main_stdout' = Append(main_stdout,
                             Msg("appended", 0, Join(templates_for_cache, <<",", " ">>)))
    /\ main_pc' = "done"
    /\ UNCHANGED <<data, templates_for_cache, listed, output_str, err_stream, cat_pc,
                   template_specs, write_to_file_flag, cache, update_ran, main_frame>>

\* main.rs 222-227: .gitignore is there and --force is not given
MainRefuse ==
    /\ main_pc = "resolved"
    /\ opt_write
    /\ gitignore.exists
    /\ ~opt_force
    /\ err_stream' = Append(err_stream, <<"<Warning>", ": '.gitignore' already exists.">>)
    /\ main_pc' = "done"
    /\ UNCHANGED <<data, templates_for_cache, listed, output_str, cat_pc, gitignore,
                   template_specs, write_to_file_flag, cache, update_ran,
                   main_stdout, main_frame>>

\* main.rs 228-235: the output goes to standard output
MainPrint ==
    /\ main_pc = "resolved"
    /\ ~opt_write
    /\ main_stdout' = Append(main_stdout, Msg("output", 0, output_str))
    /\ main_pc' = "done"
    /\ UNCHANGED <<data, templates_for_cache, listed, output_str, err_stream, cat_pc,
                   gitignore, template_specs, write_to_file_flag, cache, update_ran,
                   main_frame>>

\* The same command line is run once more, on the store and the .gitignore
\* that the run before left.
MainAgain ==
    /\ main_pc \in {"done", "direct", "error"}
    /\ run < MaxRuns
    /\ run' = run + 1
    /\ before_run' = gitignore
    /\ data' = <<>>
    /\ templates_for_cache' = <<>>
    /\ listed' = <<>>
    /\ output_str' = <<>>
    /\ err_stream' = <<>>
    /\ cat_pc' = "start"
    /\ update_ran' = "no"
    /\ main_stdout' = <<>>
    /\ main_pc' = "start"
    /\ template_specs' = <<>>
    /\ write_to_file_flag' = FALSE
    /\ UNCHANGED <<gitignore, cache, main_opts, remote, given, fetch_locals,
                   cap_vars, get_vars>>

MainNext ==
    \/ MainDirectFetch
    \/ MainBuild
    \/ MainUpdateFlag
    \/ MainCacheHit
    \/ MainAutoUpdate
    \/ MainListNoCache
    \/ MainUpdateError
    \/ MainUpdateOnly
    \/ MainList
    \/ MainHelp
    \/ MainGet
    \/ MainCreate
    \/ MainAppend
    \/ MainRefuse
    \/ MainPrint
    \/ MainAgain

SpecMain == MainInit /\ [][MainNext]_vars

-----------------------------------------------------------------------------
(* Properties of capitalize_template_spec, checked under SpecCap *)

SameSegment(s, i, j) ==
    \A k \in (IF i < j THEN i ELSE j)..(IF i < j THEN j ELSE i) : s[k] # "/"

SegmentHasUppercase(s, i) ==
    \E j \in 1..Len(s) : SameSegment(s, i, j) /\ IsAsciiUppercase(s[j])

NormalizedChar(s, i) ==
    IF s[i] = "/" THEN "/"
    ELSE IF SegmentHasUppercase(s, i) THEN s[i]
    ELSE IF IsAsciiLowercase(s[i]) /\ (i = 1 \/ ~IsAlphanumeric(s[i - 1]))
         THEN ToAsciiUppercase(s[i])
         ELSE s[i]

CapExampleResults ==
    /\ cap_spec = <<"v","i","s","u","a","l","-","s","t","u","d","i","o","-","c","o","d","e">>
         => cap_result = <<"V","i","s","u","a","l","-","S","t","u","d","i","o","-","C","o","d","e">>
    /\ cap_spec = <<"c","+","+">> => cap_result = <<"C","+","+">>
    /\ cap_spec = <<"g","l","o","b","a","l","/","l","i","n","u","x">>
         => cap_result = <<"G","l","o","b","a","l","/","L","i","n","u","x">>
    /\ cap_spec = <<"R","U","S","T">> => cap_result = <<"R","U","S","T">>

\* C9: every '/'-separated segment is normalized on its own: a segment with an
\* uppercase character is returned unchanged; otherwise exactly the lowercase
\* letters that start the segment or follow a non-alphanumeric character are
\* uppercased, and every other character is left as given.
Thm_C9 ==
    cap_done =>
        /\ Len(cap_result) = Len(cap_spec)
        /\ \A i \in 1..Len(cap_spec) : cap_result[i] = NormalizedChar(cap_spec, i)
        /\ CapExampleResults

Wit_C9 ==
    /\ cap_done
    /\ cap_spec = <<"a","-","b","/","a","B">>
    /\ cap_result = <<"A","-","B","/","a","B">>

LowercaseInPlainSegment(s, i) ==
    /\ s[i] # "/"
    /\ ~SegmentHasUppercase(s, i)
    /\ IsAsciiLowercase(s[i])

FirstAlphabeticOfSegment(s, i) ==
    /\ LowercaseInPlainSegment(s, i)
    /\ \A j \in 1..(i - 1) : SameSegment(s, i, j) => ~IsAsciiLowercase(s[j])

\* C10 as stated: digits break a segment for capitalization like '_' and '-',
\* so the first alphabetic character is capitalized even after digits and a
\* lowercase letter right after a digit is capitalized.
Orig_C10 ==
    cap_done =>
        \A i \in 1..Len(cap_spec) :
            /\ FirstAlphabeticOfSegment(cap_spec, i)
                 => cap_result[i] = ToAsciiUppercase(cap_spec[i])
            /\ (i > 1 /\ LowercaseInPlainSegment(cap_spec, i) /\ IsAsciiDigit(cap_spec[i - 1]))
                 => cap_result[i] = ToAsciiUppercase(cap_spec[i])

\* C10 amended: digits do not break a segment for capitalization: in a segment
\* with no uppercase character a lowercase letter right after a digit is left
\* as given, while a lowercase letter right after '_' or '-' is capitalized.
Thm_C10 ==
    cap_done =>
        \A i \in 2..Len(cap_spec) :
            LowercaseInPlainSegment(cap_spec, i) =>
                /\ IsAsciiDigit(cap_spec[i - 1]) => cap_result[i] = cap_spec[i]
                /\ cap_spec[i - 1] \in {"_", "-"}
                     => cap_result[i] = ToAsciiUppercase(cap_spec[i])

Wit_C10 ==
    /\ cap_done
    /\ cap_spec = <<"1", "a", "_", "b">>
    /\ cap_result = <<"1", "a", "_", "B">>

-----------------------------------------------------------------------------
(* Properties of get_templates and list, checked under SpecCatalog *)

Has(kind, k) == \E i \in 1..Len(data) : data[i].kind = kind /\ data[i].key = k

EntryOf(kind, k) == CHOOSE e \in Range(data) : e.kind = kind /\ e.key = k

\* What a target of an alias contributes: the User Template of that name,
\* else the Vendor Template of that name, else nothing.
TargetContribution(t) ==
    IF Has("UserTemplate", t) THEN EntryOf("UserTemplate", t).content
    ELSE IF Has("Template", t) THEN EntryOf("Template", t).content
    ELSE <<>>

ExpansionOf(k) ==
    LET targets == EntryOf("Alias", k).aliases
    IN Concat([i \in 1..Len(targets) |-> TargetContribution(targets[i])])

\* What a requested name contributes under User Template > Alias > Vendor.
Contribution(k) ==
    IF Has("UserTemplate", k) THEN EntryOf("UserTemplate", k).content
    ELSE IF Has("Alias", k) THEN ExpansionOf(k)
    ELSE IF Has("Template", k) THEN EntryOf("Template", k).content
    ELSE <<>>

WithHeader(names, body) == IF body = <<>> THEN <<>> ELSE Header(names) \o body

\* C1: every requested name contributes by the precedence User Template >
\* Alias > Vendor Template, decided for that name alone; the output is the
\* contributions of the requested names one after the other.
Thm_C1 ==
    cat_pc = "get" =>
        output_str =
            WithHeader(templates_for_cache,
                       Concat([i \in 1..Len(templates_for_cache) |->
                                   Contribution(templates_for_cache[i])]))

Wit_C1 ==
    /\ cat_pc = "get"
    /\ templates_for_cache = <<KeyAB, KeyA>>
    /\ Has("UserTemplate", KeyA) /\ Has("Alias", KeyA) /\ Has("Template", KeyA)
    /\ Has("Alias", KeyAB) /\ Has("Template", KeyAB)
    /\ EntryOf("Alias", KeyAB).aliases = <<>>
    /\ output_str = Header(<<KeyAB, KeyA>>) \o <<"u", "a", "\n">>

NoSuchAlias(name) == BoldYellow(name) \o <<":", " ", "No such alias">>

\* The error lines of one requested name: one per target of its alias that is
\* neither a User Template nor a Vendor Template.
ErrorsOf(k) ==
    IF Has("UserTemplate", k) \/ ~Has("Alias", k) THEN <<>>
    ELSE LET targets == EntryOf("Alias", k).aliases
             missing == SelectSeq(targets, LAMBDA t : ~Has("UserTemplate", t)
                                                      /\ ~Has("Template", t))
         IN [i \in 1..Len(missing) |-> NoSuchAlias(k)]

\* C2: alias expansion is one level deep: a target is looked up as a User
\* Template and then as a Vendor Template only; a target that exists only as
\* an Alias adds no content, is reported as "No such alias", and the targets
\* after it are still processed.
Thm_C2 ==
    cat_pc = "get" =>
        /\ err_stream = Concat([i \in 1..Len(templates_for_cache) |->
                                    ErrorsOf(templates_for_cache[i])])
        /\ \A k \in Names :
              (/\ templates_for_cache = <<k>>
               /\ ~Has("UserTemplate", k)
               /\ Has("Alias", k))
              => output_str = WithHeader(<<k>>, ExpansionOf(k))

Wit_C2 ==
    /\ cat_pc = "get"
    /\ templates_for_cache = <<KeyAB>>
    /\ Has("Alias", KeyAB) /\ EntryOf("Alias", KeyAB).aliases = <<KeyA, KeyAB>>
    /\ Has("Alias", KeyA) /\ ~Has("UserTemplate", KeyA) /\ ~Has("Template", KeyA)
    /\ Has("Template", KeyAB)
    /\ output_str = Header(<<KeyAB>>) \o <<"v", "a", "b", "\n">>
    /\ err_stream = <<NoSuchAlias(KeyAB)>>

Emitted(tn) == Cardinality({i \in 1..Len(listed) : listed[i] = tn})

Qualifies(tn) ==
    \E i \in 1..Len(templates_for_cache) : Contains(tn.name, templates_for_cache[i])

\* C7: with a non-empty list of substrings, list emits every catalog entry
\* whose key contains at least one of them, each exactly once even when the
\* key contains several of them, and no other entry.
Claim_C7 ==
    (cat_pc = "list" /\ templates_for_cache # <<>>) =>
        \A i \in 1..Len(data) :
            Emitted(TypeName(data[i])) = IF Qualifies(TypeName(data[i])) THEN 1 ELSE 0

KindRank(kind) ==
    IF kind = "Template" THEN 1 ELSE IF kind = "Alias" THEN 2 ELSE 3

\* C8: the output of list has every Vendor Template before every Alias and
\* every Alias before every User Template, and the keys of one variant in
\* ascending order.  Stated here for entries of different keys only: the
\* order of two entries of one key is not specified by the sort.
Claim_C8 ==
    cat_pc = "list" =>
        \A i, j \in 1..Len(listed) :
            (i < j /\ listed[i].name # listed[j].name) =>
                \/ KindRank(listed[i].kind) < KindRank(listed[j].kind)
                \/ /\ listed[i].kind = listed[j].kind
                   /\ ~StrLess(listed[j].name, listed[i].name)

-----------------------------------------------------------------------------
(* Properties of fetch_and_append_github_templates, checked under SpecFetch *)

TrimmedLinesOf(content) == {TrimEnd(l) : l \in Range(Lines(content))}

PrintedKinds == {printed[i].msg : i \in 1..Len(printed)}

OutcomeOf(i) == remote[capitalize_template_spec(template_specs[i])]

EveryBodyRead == \A i \in 1..Len(template_specs) : OutcomeOf(i).kind # "body_error"

\* C3: in write mode, with the remote answering the same on both runs, a
\* second run leaves .gitignore byte for byte as the first run left it and
\* appends no line; when the first run ran to its end, the second collects
\* no line at all.
Thm_C3 ==
    (write_to_file_flag /\ run >= 2) =>
        /\ gitignore = before_run
        /\ "total" \notin PrintedKinds
        /\ EveryBodyRead =>
               /\ session_lines_to_add = <<>>
               /\ overall_new_lines_count_for_session = 0
               /\ "collected" \notin PrintedKinds

Wit_C3 ==
    /\ write_to_file_flag
    /\ run = 2
    /\ f_pc = "done"
    /\ given = File(<<"a">>)
    /\ gitignore = File(<<"a", "\n", "b", "\n">>)
    /\ "no_new_lines" \in PrintedKinds

\* C4: at every point of the fetch loop and after it the batch holds no empty
\* line, no line twice and, in write mode, no line that is a trimmed line of
\* the file as it was before the run; the count that is reported as appended
\* is the number of lines of the batch.
Thm_C4 ==
    f_pc \in {"loop", "done"} =>
        /\ \A i \in 1..Len(session_lines_to_add) : session_lines_to_add[i] # <<>>
        /\ \A i, j \in 1..Len(session_lines_to_add) :
               i # j => session_lines_to_add[i] # session_lines_to_add[j]
        /\ write_to_file_flag =>
               Range(session_lines_to_add) \cap TrimmedLinesOf(before_run.content) = {}
        /\ overall_new_lines_count_for_session = Len(session_lines_to_add)
        /\ (f_pc = "done" /\ write_to_file_flag /\ session_lines_to_add # <<>>) =>
               Msg("total", Len(session_lines_to_add), <<>>) \in Range(printed)

Wit_C4 ==
    /\ f_pc = "done"
    /\ run = 1
    /\ write_to_file_flag
    /\ given = File(<<"a", " ">>)
    /\ template_specs = <<SpecC, SpecD, SpecC>>
    /\ remote[<<"C">>] = [kind |-> "ok", body |-> <<"b", "\r", "\n", "\n", " ", "a">>]
    /\ remote[<<"D">>] = [kind |-> "ok", body |-> <<"a", " ", "\n", "b", "\n">>]
    /\ session_lines_to_add = << <<"b">>, <<" ", "a">> >>
    /\ Msg("total", 2, <<>>) \in Range(printed)

\* The names among the first n requested whose fetch came to one of kinds,
\* each followed by a space.
RECURSIVE NamesWith(_, _)
NamesWith(kinds, n) ==
    IF n = 0 THEN <<>>
    ELSE NamesWith(kinds, n - 1)
             \o (IF OutcomeOf(n).kind \in kinds THEN template_specs[n] \o <<" ">> ELSE <<>>)

PrintedLines == {printed[i].text : i \in {j \in 1..Len(printed) : printed[j].msg = "line"}}

\* C5: fetches that fail with a non-success status or a transport error do not
\* stop the loop: the success list holds exactly the names fetched, the
\* failure list exactly the names that failed, and the lines of every
\* template that was fetched are in the file or were printed.
Thm_C5 ==
    f_pc \in {"loop", "done"} =>
        /\ succeeded_templates_list = NamesWith({"ok"}, idx - 1)
        /\ failed_templates_list = NamesWith({"status", "transport"}, idx - 1)
        /\ f_pc = "done" =>
               /\ idx = Len(template_specs) + 1
               /\ \A i \in 1..Len(template_specs) :
                      OutcomeOf(i).kind = "ok" =>
                          TrimmedLinesOf(OutcomeOf(i).body) \ {<<>>} \subseteq
                              IF write_to_file_flag
                              THEN TrimmedLinesOf(gitignore.content)
                              ELSE PrintedLines

Wit_C5 ==
    /\ f_pc = "done"
    /\ run = 1
    /\ write_to_file_flag
    /\ given = NoFile
    /\ template_specs = <<SpecC, SpecD, SpecC>>
    /\ remote[<<"D">>].kind = "status"
    /\ remote[<<"C">>] = [kind |-> "ok", body |-> <<"a", " ", "\n", "b", "\n">>]
    /\ succeeded_templates_list = <<"c", " ", "c", " ">>
    /\ failed_templates_list = <<"d", " ">>
    /\ gitignore = File(<<"a", "\n", "b", "\n">>)

\* C6: no network failure, at sending, at the status or at reading the body,
\* makes the function return an error.
Claim_C6 == f_pc # "error"

-----------------------------------------------------------------------------
(* The append of the batch, the output without the write flag, the summaries *)

CountOf(c, s) == Cardinality({i \in 1..Len(s) : s[i] = c})

\* C15: a run in write mode that ends with a non-empty batch leaves the file
\* as its previous content, then one newline if that content was not empty
\* and did not end with a newline, then the lines of the batch in batch
\* order, each ended by a newline.
Thm_C15 ==
    (f_pc = "done" /\ write_to_file_flag /\ session_lines_to_add # <<>>) =>
        LET old == before_run.content
            new == gitignore.content
            sep == IF old # <<>> /\ old[Len(old)] # "\n" THEN 1 ELSE 0
            appended == SubSeq(new, Len(old) + sep + 1, Len(new))
        IN /\ gitignore.exists
           /\ Len(new) > Len(old) + sep
           /\ SubSeq(new, 1, Len(old)) = old
           /\ sep = 1 => new[Len(old) + 1] = "\n"
           /\ appended[Len(appended)] = "\n"
           /\ CountOf("\n", appended) = Len(session_lines_to_add)
           /\ Split(SubSeq(appended, 1, Len(appended) - 1), "\n") = session_lines_to_add

Wit_C15 ==
    /\ f_pc = "done"
    /\ run = 1
    /\ write_to_file_flag
    /\ before_run = File(<<"a">>)
    /\ session_lines_to_add = << <<"b">> >>
    /\ gitignore = File(<<"a", "\n", "b", "\n">>)

\* The lines of the bodies fetched among the first n names, end-trimmed, the
\* empty ones left out, each at its first occurrence only.
RECURSIVE FirstOccurrences(_, _)
FirstOccurrences(lines, seen) ==
    IF Len(lines) = 0 THEN <<>>
    ELSE IF Head(lines) \in seen THEN FirstOccurrences(Tail(lines), seen)
    ELSE <<Head(lines)>> \o FirstOccurrences(Tail(lines), seen \cup {Head(lines)})

RECURSIVE FetchedLines(_)
FetchedLines(n) ==
    IF n = 0 THEN <<>>
    ELSE FetchedLines(n - 1)
             \o (IF OutcomeOf(n).kind = "ok"
                 THEN LET ls == Lines(OutcomeOf(n).body)
                      IN SelectSeq([i \in 1..Len(ls) |-> TrimEnd(ls[i])],
                                   LAMBDA l : l # <<>>)
                 ELSE <<>>)

\* C16: without the write flag .gitignore is never created, read or changed;
\* the lines known as existing are those collected in this invocation only;
\* what is printed at the end is the batch, one line each in first-occurrence
\* order and with no header, followed by nothing but the success summary.
Thm_C16 ==
    ~write_to_file_flag =>
        /\ gitignore = given
        /\ existing_lines = Range(session_lines_to_add)
        /\ f_pc = "done" =>
               LET batch == FirstOccurrences(FetchedLines(Len(template_specs)), {})
               IN /\ session_lines_to_add = batch
                  /\ \A i \in 1..Len(batch) : printed[i] = Msg("line", 0, batch[i])
                  /\ \A i \in 1..Len(printed) :
                         i > Len(batch) => (i = Len(printed) /\ printed[i].msg = "succeeded")

Wit_C16 ==
    /\ f_pc = "done"
    /\ run = 1
    /\ ~write_to_file_flag
    /\ given = NoFile
    /\ gitignore = NoFile
    /\ template_specs = <<SpecD, SpecC>>
    /\ remote[<<"D">>] = [kind |-> "ok", body |-> <<"b", "\r", "\n", "\n", " ", "a">>]
    /\ remote[<<"C">>] = [kind |-> "ok", body |-> <<"a", " ", "\n", "b", "\n">>]
    /\ printed = << Msg("line", 0, <<"b">>), Msg("line", 0, <<" ", "a">>),
                    Msg("line", 0, <<"a">>), Msg("succeeded", 0, <<"d", " ", "c">>) >>

\* The requested names whose fetch came to one of kinds, in request order.
NamesOfKind(kinds) ==
    LET picked == SelectSeq([i \in 1..Len(template_specs) |-> i],
                            LAMBDA i : OutcomeOf(i).kind \in kinds)
    IN [j \in 1..Len(picked) |-> template_specs[picked[j]]]

SummaryText(stream, kind) ==
    LET hits == {i \in 1..Len(stream) : stream[i].msg = kind}
    IN IF hits = {} THEN <<>> ELSE stream[CHOOSE i \in hits : TRUE].text

\* C17: after all names were processed, the success summary is the names
\* fetched, the failure summary the names that failed, each in request order
\* and separated by single spaces; every occurrence of a requested name is in
\* exactly one of the two, and a name fetched with an empty body or with
\* nothing new is in the success summary.
Thm_C17 ==
    f_pc = "done" =>
        LET ok == NamesOfKind({"ok"})
            ko == NamesOfKind({"status", "transport"})
        IN /\ Len(ok) + Len(ko) = Len(template_specs)
           /\ SummaryText(printed, "succeeded") = Join(ok, <<" ">>)
           /\ SummaryText(f_stderr, "failed") = Join(ko, <<" ">>)
           /\ Cardinality({i \in 1..Len(printed) : printed[i].msg = "succeeded"}) <= 1
           /\ Cardinality({i \in 1..Len(f_stderr) : f_stderr[i].msg = "failed"}) <= 1

Wit_C17 ==
    /\ f_pc = "done"
    /\ run = 1
    /\ write_to_file_flag
    /\ template_specs = <<SpecC, SpecD, SpecC>>
    /\ remote[<<"C">>] = [kind |-> "ok", body |-> <<>>]
    /\ remote[<<"D">>].kind = "transport"
    /\ session_lines_to_add = <<>>
    /\ SummaryText(printed, "succeeded") = <<"c", " ", "c">>
    /\ SummaryText(f_stderr, "failed") = <<"d">>

-----------------------------------------------------------------------------
(* The order of the requested names and the order of the catalog *)

\* C14: a request is resolved in the order the names were given: the output
\* is the header over the requested names, comma-joined in that order, and
\* then the contribution of each name in that order.  Stated for requests
\* that give no name twice.
Claim_C14 ==
    (cat_pc = "get" /\ Cardinality(Range(opt_templates)) = Len(opt_templates)) =>
        output_str =
            WithHeader(opt_templates,
                       Concat([i \in 1..Len(opt_templates) |->
                                   Contribution(opt_templates[i])]))

Reverse(ordering) ==
    IF ordering = "Less" THEN "Greater"
    ELSE IF ordering = "Greater" THEN "Less"
    ELSE "Equal"

SortsBefore(a, b) ==
    \/ KindRank(a.kind) < KindRank(b.kind)
    \/ a.kind = b.kind /\ StrLess(a.key, b.key)

\* C19: for any two entries of the catalog the comparison says Less exactly
\* when the first is of an earlier kind in Vendor Template < Alias < User
\* Template, or of the same kind with a smaller key; and comparing them the
\* other way round gives the reverse.
Claim_C19 ==
    \A i, j \in 1..Len(data) :
        /\ (Type_cmp(data[i], data[j]) = "Less") <=> SortsBefore(data[i], data[j])
        /\ Type_cmp(data[i], data[j]) = Reverse(Type_cmp(data[j], data[i]))

-----------------------------------------------------------------------------
(* Termination of get_templates, checked under SpecGet *)

\* The number of content blocks a requested name may contribute: one per
\* target when the name is looked up as an alias, one otherwise.
MaxBlocks(k) ==
    IF ~Has("UserTemplate", k) /\ Has("Alias", k)
    THEN Len(EntryOf("Alias", k).aliases)
    ELSE 1

\* C20: get_templates returns for every catalog and every list of names,
\* catalogs with aliases that name themselves or each other included, with
\* the result the one-level resolution gives; no requested name contributes
\* more blocks than its alias has targets, or more than one when it is not
\* looked up as an alias.
Thm_C20 ==
    /\ <>(g_pc = "done")
    /\ [](\A n \in 1..Len(g_blocks) : g_blocks[n] <= MaxBlocks(templates_for_cache[n]))
    /\ [](g_pc = "done" => output_str = get_templates(data, templates_for_cache).result)

Wit_C20 ==
    /\ g_pc = "done"
    /\ templates_for_cache = <<KeyA, KeyAB>>
    /\ get_alias(data, KeyA) = Some(<<KeyAB, KeyA>>)
    /\ get_alias(data, KeyAB) = Some(<<KeyA>>)
    /\ ~Has("UserTemplate", KeyA)
    /\ g_blocks = <<2, 1>>
    /\ output_str = Header(<<KeyA, KeyAB>>)
                        \o VendorText(KeyAB) \o VendorText(KeyA) \o VendorText(KeyA)

-----------------------------------------------------------------------------
(* The writer, the route and the update of main, checked under SpecMain *)

\* The characters of a text whose literals are single elements, as far as
\* the newlines go.
ChunkChars(c) ==
    IF c = "\n\n### Sourced from github/gitignore for: "
    THEN <<"\n", "\n", "### Sourced from github/gitignore for: ">>
    ELSE IF c = " ###\n" THEN <<" ###", "\n">>
    ELSE IF c = "<help>" THEN <<"<help>", "\n">>
    ELSE <<c>>

Chars(content) == Concat([i \in 1..Len(content) |-> ChunkChars(content[i])])

Occurrences(line, content) ==
    LET ls == Lines(Chars(content))
    IN Cardinality({i \in 1..Len(ls) : ls[i] = line})

\* C11: when main has resolved names against the catalog and written the text
\* into a .gitignore that was there before the run, no non-empty line that
\* the file held before the run is in the file once more after it.
Claim_C11 ==
    (main_pc = "done" /\ cat_pc = "get" /\ opt_write /\ before_run.exists) =>
        \A line \in Range(Lines(Chars(before_run.content))) \ {<<>>} :
            Occurrences(line, gitignore.content)
                = Occurrences(line, before_run.content)

\* C12: a run with a single bare name that is a user alias (and not a user
\* template) and with none of --list, --update, --auto ends with the output
\* made of what the targets of the alias contribute.
Claim_C12 ==
    ( /\ main_pc \in {"direct", "done", "error"}
      /\ ~opt_list /\ ~opt_update /\ ~opt_auto
      /\ Len(opt_templates) = 1
      /\ opt_templates[1] \in DOMAIN user_config.aliases
      /\ opt_templates[1] \notin DOMAIN user_config.templates ) =>
        /\ main_pc = "done"
        /\ cat_pc = "get"
        /\ output_str = WithHeader(opt_templates, ExpansionOf(opt_templates[1]))

\* C13: after a run that resolved names against the catalog, with --write and
\* --force, on a .gitignore that was there and with an output that is not
\* empty, the file is exactly the output.
Claim_C13 ==
    ( /\ main_pc = "done"
      /\ cat_pc = "get"
      /\ opt_write /\ opt_force
      /\ before_run.exists
      /\ output_str # <<>> ) =>
        gitignore = File(output_str)

\* C18: in a run in which the update of the store succeeded, the catalog that
\* listing and resolution use holds the vendor templates of the updated store.
Claim_C18 ==
    (update_ran = "ok" /\ cat_pc \in {"list", "get"}) =>
        \A k \in DOMAIN cache.files :
            Has("Template", k) /\ EntryOf("Template", k).content = cache.files[k]

-----------------------------------------------------------------------------
(* The normalizer applied twice, checked under SpecCap *)

\* Two characters that are the same or differ in the case of a letter only.
SameButCase(c, d) ==
    \/ c = d
    \/ /\ IsAsciiLowercase(c) \/ IsAsciiUppercase(c)
       /\ IsAsciiLowercase(d) \/ IsAsciiUppercase(d)
       /\ ToAsciiUppercase(c) = ToAsciiUppercase(d)

CaseOnly(s, r) ==
    /\ Len(r) = Len(s)
    /\ CountOf("/", r) = CountOf("/", s)
    /\ \A i \in 1..Len(s) : SameButCase(s[i], r[i])
    /\ \A i \in 1..Len(s) : (s[i] = "/") <=> (r[i] = "/")

\* C21: what capitalize_template_spec returns has the length of its argument,
\* the same '/'-separated segments in number and place, and differs from the
\* argument in the case of letters only; normalizing the result again returns
\* the result itself.
Thm_C21 ==
    /\ cap_done => CaseOnly(cap_spec, cap_result)
    /\ cap_calls = 2 =>
           /\ cap_result = cap_spec
           /\ CaseOnly(cap_given, cap_result)

Wit_C21 ==
    /\ cap_calls = 2
    /\ cap_given = <<"a", "/", "1", "b">>
    /\ cap_spec = <<"A", "/", "1", "b">>
    /\ cap_result = <<"A", "/", "1", "b">>

-----------------------------------------------------------------------------
(* The frame of the writer of main, checked under SpecMain *)

AlreadyExistsWarning == <<"<Warning>", ": '.gitignore' already exists.">>

\* C22: in cache mode .gitignore is left as it was until the writer runs; a
\* run that got as far as the resolution changes the file only with --write
\* and an output that is not empty, and then either the file was not there
\* and is created as exactly the output, or --force is given; when the file
\* is there and --force is not given, or when the output is empty, the file
\* is left as it was and the run ends successfully, with a warning (for the
\* empty output: when names were requested).
Claim_C22 ==
    /\ main_pc \in {"start", "built", "updated", "resolved", "error"} =>
           gitignore = before_run
    /\ (main_pc = "done" /\ cat_pc # "start") =>
           /\ gitignore # before_run =>
                  /\ opt_write
                  /\ output_str # <<>>
                  /\ \/ ~before_run.exists /\ gitignore = File(output_str)
                     \/ opt_force
           /\ (opt_write /\ before_run.exists /\ ~opt_force /\ output_str # <<>>) =>
                  /\ gitignore = before_run
                  /\ AlreadyExistsWarning \in Range(err_stream)
           /\ output_str = <<>> =>
                  /\ gitignore = before_run
                  /\ templates_for_cache # <<>> =>
                         NoTemplatesFound(templates_for_cache) \in Range(err_stream)

=============================================================================
